---- MODULE Spec2Model ----
(***************************************************************************)
(* Temporal Maze: the simulation core of src/src/game_enhanced.            *)
(*                                                                         *)
(* World (world.py) is the tile grid with its switch/door/portal/item      *)
(* registries; Player and TimeClone (entities.py) are the live mover and   *)
(* its replaying clones; OptimizedGame (optimized_game.py) is the session  *)
(* that loads a level, advances everything once per frame (update) and     *)
(* dispatches key presses (handle_events).  The model covers the lifetime  *)
(* of one loaded level without guards; the on-screen message, the camera   *)
(* and the paw prints are not part of the state.                           *)
(***************************************************************************)
EXTENDS Integers, Sequences, FiniteSets, TLC

VARIABLES world, player, clones, guards, state, hcalls, retired, key_opened

vars == <<world, player, clones, guards, state, hcalls, retired, key_opened>>

(***************************************************************************)
(* constants.py                                                            *)
(***************************************************************************)
TILE_WALL == 0
TILE_FLOOR == 1
TILE_SWITCH == 2
TILE_DOOR_CLOSED == 3
TILE_DOOR_OPEN == 4
TILE_EXIT == 5
TILE_PORTAL_A == 6
TILE_PORTAL_B == 7
TILE_ITEM_KEY == 8
TILE_ITEM_POTION == 9
TILE_TERMINAL == 10

STATE_PLAYING == 1
STATE_LEVEL_COMPLETE == 3
STATE_GAME_OVER == 4

GUARD_PATROLLING == 0
GUARD_ALERTED == 1
GUARD_CHASING == 2

MAX_CLONES == 3
PLAYER_START_ENERGY == 3

\* Guard.__init__: self.view_distance = 5
GuardViewDistance == 5
\* Guard timers count tenths of a second: patrol_wait is 1.5 s and
\* alert_duration 3 s (entities.py:446, 430).
patrol_wait == 15
alert_duration == 30

\* constants.py sets MAX_HISTORY = 100; the model keeps the same bounded
\* FIFO with a capacity small enough to overflow within a few steps.
MAX_HISTORY == 3

\* The numbers typed at the time-travel prompt: 0 .. MaxStepsInput.
MaxStepsInput == MAX_HISTORY + 1

\* In Spec the time-travel prompt is opened only while fewer than
\* MaxReplaying clones are replaying; SpecCrowd has no such limit.
MaxReplaying == 1

(***************************************************************************)
(* The level handed to the session at load time.                           *)
(*                                                                         *)
(*        x: 0 1 2 3 4 5 6 7 8                                             *)
(*     y=0:  # # # B # # # A t        s,S,t switches   K key   O potion    *)
(*     y=1:  # # s @ S C K O L        C door needing s and S               *)
(*     y=2:  # # # X # # # # #        L door at the key-door coordinate    *)
(*                                    A,B portal pair  X exit  @ start     *)
(***************************************************************************)
LevelWidth == 9
LevelHeight == 3

Positions == (0 .. LevelWidth - 1) \X (0 .. LevelHeight - 1)

S1 == <<2, 1>>
S2 == <<4, 1>>
S3 == <<8, 0>>
DoorC == <<5, 1>>
PortalA == <<7, 0>>
PortalB == <<3, 0>>
KeyPos == <<6, 1>>
PotionPos == <<7, 1>>
ExitPos == <<3, 2>>
PlayerStart == <<3, 1>>

\* entities.py:172 decides "is this the key door" by this coordinate.
KeyDoorPos == <<8, 1>>

LevelMap ==
    [p \in Positions |->
        IF p = PlayerStart THEN TILE_FLOOR
        ELSE IF p \in {S1, S2, S3} THEN TILE_SWITCH
        ELSE IF p = ExitPos THEN TILE_EXIT
        ELSE TILE_WALL]

\* The level-data dictionary (level_generator.py:213-222 gives its keys).
\* The door at the key-door coordinate comes with a required switch, as
\* every door the generator places does (level_generator.py:120,152).
LevelData ==
    [map |-> LevelMap,
     player_start |-> PlayerStart,
     switches |-> {S1, S2, S3},
     doors |-> (DoorC :> [required_switches |-> {S1, S2}, is_open |-> FALSE])
               @@ (KeyDoorPos :> [required_switches |-> {S3}, is_open |-> FALSE]),
     portals |-> {<<PortalA, PortalB>>},
     items |-> (KeyPos :> TILE_ITEM_KEY) @@ (PotionPos :> TILE_ITEM_POTION),
     guards |-> <<>>,
     terminals |-> {}]

\* The same level as _convert_file_data_to_dict builds it from a level file:
\* the door at the key-door coordinate gets an empty required-switch set
\* (optimized_game.py:747-748).
FileLevelData ==
    [LevelData EXCEPT !.doors[KeyDoorPos].required_switches = {}]

\* The first level with the switch at (8,0) left out of the switch list and
\* of the map, while the door at (8,1) still requires it.
PatchedData ==
    [LevelData EXCEPT !.switches = {S1, S2},
                      !.map = [LevelMap EXCEPT ![S3] = TILE_FLOOR]]

(***************************************************************************)
(* The first level with the key moved below the left switch, so that an    *)
(* item can be picked up from a switch tile.                               *)
(*                                                                         *)
(*        x: 0 1 2 3 4 5 6 7 8                                             *)
(*     y=0:  # # # B # # # A t                                             *)
(*     y=1:  # # s @ S C . O L                                             *)
(*     y=2:  # # K X # # # # #                                             *)
(***************************************************************************)
StepsKeyPos == <<2, 2>>

StepsData ==
    [LevelData EXCEPT !.map = [LevelMap EXCEPT ![KeyPos] = TILE_FLOOR],
                      !.items = (StepsKeyPos :> TILE_ITEM_KEY)
                                @@ (PotionPos :> TILE_ITEM_POTION)]

(***************************************************************************)
(* A second, bare level: a corridor with a potion at its end.              *)
(*                                                                         *)
(*        x: 0 1 2 3 4 5 6 7 8                                             *)
(*     y=1:  # # # @ . . O # #                                             *)
(***************************************************************************)
CorridorPotionPos == <<6, 1>>

CorridorData ==
    [map |-> [p \in Positions |->
                IF p \in {PlayerStart, <<4, 1>>, <<5, 1>>} THEN TILE_FLOOR ELSE TILE_WALL],
     player_start |-> PlayerStart,
     switches |-> {},
     doors |-> <<>>,
     portals |-> {},
     items |-> (CorridorPotionPos :> TILE_ITEM_POTION),
     guards |-> <<>>,
     terminals |-> {}]

(***************************************************************************)
(* A level with a guard, for the guard's line of sight.  The door D needs  *)
(* the switch s above the tile to its right.                               *)
(*                                                                         *)
(*        x: 0 1 2 3 4 5 6 7 8                                             *)
(*     y=0:  . # . . # . . . s                                             *)
(*     y=1:  # . . . . . . D .                                             *)
(*     y=2:  . . # . . . # . .                                             *)
(***************************************************************************)
SightSwitch == <<8, 0>>
SightDoor == <<7, 1>>
SightWalls == {<<1, 0>>, <<4, 0>>, <<0, 1>>, <<2, 2>>, <<6, 2>>}

\* Where the level may put the mover's start and the guard.
SightFree == {p \in Positions : p[1] < 9 /\ p[2] < 3} \ (SightWalls \cup {SightDoor})

SightData(start, guard_pos) ==
    [map |-> [p \in Positions |->
                IF p \in SightFree \cup {SightDoor}
                THEN (IF p = SightSwitch THEN TILE_SWITCH ELSE TILE_FLOOR)
                ELSE TILE_WALL],
     player_start |-> start,
     switches |-> {SightSwitch},
     doors |-> (SightDoor :> [required_switches |-> {SightSwitch}, is_open |-> FALSE]),
     portals |-> {},
     items |-> <<>>,
     guards |-> <<guard_pos>>,
     terminals |-> {}]

(***************************************************************************)
(* A level with a patrolling guard: a room of two by two cells, in which   *)
(* the mover can stand off the guard's row and column, and the guard's     *)
(* post G next to it; the guard walks from its post to the switch s and    *)
(* back.                                                                   *)
(*                                                                         *)
(*        x: 0 1 2 3 4 5 6 7 8                                             *)
(*     y=0:  # # . . # # # # #                                             *)
(*     y=1:  # # @ s G # # # #                                             *)
(***************************************************************************)
PatrolStart == <<2, 1>>
PatrolSwitch == <<3, 1>>
PatrolPost == <<4, 1>>
PatrolFree == {<<2, 0>>, <<3, 0>>, PatrolStart, PatrolSwitch, PatrolPost}

PatrolData ==
    [map |-> [p \in Positions |->
                IF p = PatrolSwitch THEN TILE_SWITCH
                ELSE IF p \in PatrolFree THEN TILE_FLOOR
                ELSE TILE_WALL],
     player_start |-> PatrolStart,
     switches |-> {PatrolSwitch},
     doors |-> <<>>,
     portals |-> {},
     items |-> <<>>,
     guards |-> <<PatrolPost>>,
     terminals |-> {}]

(***************************************************************************)
(* A level for a chase cut off by a door: the guard's post G and a cell    *)
(* on one side of the door D, the mover's start on the other side, below   *)
(* the switch s that opens the door and above the exit X.                  *)
(*                                                                         *)
(*        x: 0 1 2 3 4 5 6 7 8                                             *)
(*     y=0:  # # # # s # # # #                                             *)
(*     y=1:  # G . D @ # # # #                                             *)
(*     y=2:  # # # # X # # # #                                             *)
(***************************************************************************)
ChasePost == <<1, 1>>
ChaseDoor == <<3, 1>>
ChaseStart == <<4, 1>>
ChaseSwitch == <<4, 0>>
ChaseExit == <<4, 2>>

ChaseData ==
    [map |-> [p \in Positions |->
                IF p = ChaseSwitch THEN TILE_SWITCH
                ELSE IF p = ChaseExit THEN TILE_EXIT
                ELSE IF p \in {ChasePost, <<2, 1>>, ChaseStart} THEN TILE_FLOOR
                ELSE TILE_WALL],
     player_start |-> ChaseStart,
     switches |-> {ChaseSwitch},
     doors |-> (ChaseDoor :> [required_switches |-> {ChaseSwitch}, is_open |-> FALSE]),
     portals |-> {},
     items |-> <<>>,
     guards |-> <<ChasePost>>,
     terminals |-> {}]

(***************************************************************************)
(* A level for the order of a frame: the mover's two cells, the second a   *)
(* switch that opens the door next to it, a post behind the door and the   *)
(* exit above the start.                                                   *)
(*                                                                         *)
(*        x: 0 1 2 3 4 5 6 7 8                                             *)
(*     y=0:  # X # # # # # # #                                             *)
(*     y=1:  # @ s D . # # # #                                             *)
(***************************************************************************)
OrderStart == <<1, 1>>
OrderSwitch == <<2, 1>>
OrderDoor == <<3, 1>>
OrderPost == <<4, 1>>
OrderExit == <<1, 0>>

OrderData ==
    [map |-> [p \in Positions |->
                IF p = OrderSwitch THEN TILE_SWITCH
                ELSE IF p = OrderExit THEN TILE_EXIT
                ELSE IF p \in {OrderStart, OrderPost} THEN TILE_FLOOR
                ELSE TILE_WALL],
     player_start |-> OrderStart,
     switches |-> {OrderSwitch},
     doors |-> (OrderDoor :> [required_switches |-> {OrderSwitch}, is_open |-> FALSE]),
     portals |-> {},
     items |-> <<>>,
     guards |-> <<>>,
     terminals |-> {}]

(***************************************************************************)
(* World (world.py).  A world value is a record; `calls` is a history      *)
(* field: the activate_switch/deactivate_switch calls issued so far in the *)
(* handler being executed (empty between handlers).                        *)
(***************************************************************************)
InBounds(w, x, y) == 0 <= y /\ y < w.height /\ 0 <= x /\ x < w.width

set_tile(w, x, y, tile_type) ==
    IF InBounds(w, x, y)
    THEN [w EXCEPT !.map[<<x, y>>] = tile_type]
    ELSE w

\* get_tile_at reading everything outside the grid as floor.
get_tile_at_open(w, x, y) ==
    IF InBounds(w, x, y) THEN w.map[<<x, y>>] ELSE TILE_FLOOR

get_tile_at(w, x, y) ==
    IF InBounds(w, x, y) THEN w.map[<<x, y>>] ELSE TILE_WALL

\* _update_doors opening a door as soon as one of its switches is active.
_update_doors_any(w) ==
    LET is_open(d) == w.doors[d].required_switches \cap w.activated_switches # {}
        changed(d) == w.doors[d].is_open # is_open(d)
    IN [w EXCEPT
          !.doors = [d \in DOMAIN w.doors |->
                       [w.doors[d] EXCEPT !.is_open = is_open(d)]],
          !.map = [p \in DOMAIN w.map |->
                     IF p \in DOMAIN w.doors /\ changed(p)
                     THEN (IF is_open(p) THEN TILE_DOOR_OPEN ELSE TILE_DOOR_CLOSED)
                     ELSE w.map[p]]]

_update_doors(w) ==
    LET is_open(d) == w.doors[d].required_switches \subseteq w.activated_switches
        changed(d) == w.doors[d].is_open # is_open(d)
    IN [w EXCEPT
          !.doors = [d \in DOMAIN w.doors |->
                       [w.doors[d] EXCEPT !.is_open = is_open(d)]],
          !.map = [p \in DOMAIN w.map |->
                     IF p \in DOMAIN w.doors /\ changed(p)
                     THEN (IF is_open(p) THEN TILE_DOOR_OPEN ELSE TILE_DOOR_CLOSED)
                     ELSE w.map[p]]]

\* activate_switch leaving the doors to a later recomputation.
activate_switch_lazy(w, x, y) ==
    LET switch_pos == <<x, y>>
    IN IF switch_pos \in DOMAIN w.switches /\ switch_pos \notin w.activated_switches
       THEN [w EXCEPT !.activated_switches = @ \cup {switch_pos},
                      !.calls = Append(@, <<"activate", switch_pos>>)]
       ELSE [w EXCEPT !.calls = Append(@, <<"activate", switch_pos>>)]

Logged(w, kind, pos) == [w EXCEPT !.calls = Append(@, <<kind, pos>>)]

activate_switch(w, x, y) ==
    LET switch_pos == <<x, y>>
        w1 == Logged(w, "activate", switch_pos)
    IN IF switch_pos \in DOMAIN w.switches /\ switch_pos \notin w.activated_switches
       THEN _update_doors([w1 EXCEPT !.activated_switches = @ \cup {switch_pos}])
       ELSE w1

deactivate_switch(w, x, y) ==
    LET switch_pos == <<x, y>>
        w1 == Logged(w, "deactivate", switch_pos)
    IN IF switch_pos \in w.activated_switches
       THEN _update_doors([w1 EXCEPT !.activated_switches = @ \ {switch_pos}])
       ELSE w1

\* open_door setting the door's flag and leaving the grid alone.
open_door_flag(w, x, y) ==
    LET door_pos == <<x, y>>
    IN IF door_pos \in DOMAIN w.doors
       THEN [w EXCEPT !.doors[door_pos].is_open = TRUE]
       ELSE w

open_door(w, x, y) ==
    LET door_pos == <<x, y>>
    IN IF door_pos \in DOMAIN w.doors
       THEN set_tile([w EXCEPT !.doors[door_pos].is_open = TRUE], x, y, TILE_DOOR_OPEN)
       ELSE w

get_paired_portal_same(w, portal_pos) ==
    IF portal_pos \in DOMAIN w.portals THEN portal_pos ELSE <<>>

get_paired_portal(w, portal_pos) ==
    IF portal_pos \in DOMAIN w.portals THEN w.portals[portal_pos] ELSE <<>>

remove_item_kept(w, x, y) == w

remove_item(w, x, y) ==
    LET item_pos == <<x, y>>
        w1 == IF item_pos \in DOMAIN w.items
              THEN [w EXCEPT !.items = [q \in DOMAIN w.items \ {item_pos} |-> w.items[q]]]
              ELSE w
    IN set_tile(w1, x, y, TILE_FLOOR)

activate_terminal(w, x, y) ==
    IF <<x, y>> \in w.terminals THEN <<x, y>> ELSE <<>>

\* is_walkable refusing the exit tile.
is_walkable_no_exit(w, x, y) ==
    LET tile == get_tile_at(w, x, y)
    IN IF tile \in {TILE_FLOOR, TILE_SWITCH, TILE_PORTAL_A, TILE_PORTAL_B,
                    TILE_ITEM_KEY, TILE_ITEM_POTION, TILE_TERMINAL}
       THEN TRUE
       ELSE IF tile = TILE_DOOR_CLOSED \/ tile = TILE_DOOR_OPEN
       THEN (IF <<x, y>> \in DOMAIN w.doors THEN w.doors[<<x, y>>].is_open ELSE FALSE)
       ELSE FALSE

is_walkable(w, x, y) ==
    LET tile == get_tile_at(w, x, y)
    IN IF tile \in {TILE_FLOOR, TILE_SWITCH, TILE_EXIT, TILE_PORTAL_A, TILE_PORTAL_B,
                    TILE_ITEM_KEY, TILE_ITEM_POTION, TILE_TERMINAL}
       THEN TRUE
       ELSE IF tile = TILE_DOOR_CLOSED \/ tile = TILE_DOOR_OPEN
       THEN (IF <<x, y>> \in DOMAIN w.doors THEN w.doors[<<x, y>>].is_open ELSE FALSE)
       ELSE FALSE

\* is_transparent letting closed doors through.
is_transparent_doors(w, x, y) ==
    get_tile_at(w, x, y) # TILE_WALL

is_transparent(w, x, y) ==
    LET tile == get_tile_at(w, x, y)
    IN IF tile = TILE_DOOR_OPEN THEN TRUE
       ELSE tile # TILE_WALL /\ tile # TILE_DOOR_CLOSED

(***************************************************************************)
(* OptimizedGame._setup_level_from_data (optimized_game.py:854-948)        *)
(***************************************************************************)
RequiredSwitches(level_data) ==
    UNION {level_data.doors[d].required_switches : d \in DOMAIN level_data.doors}

SetupLevel(level_data) ==
    LET \* a required switch missing from the switch list is registered and
        \* its tile rewritten (optimized_game.py:908-911)
        missing == RequiredSwitches(level_data) \ level_data.switches
        switch_positions == level_data.switches \cup missing
        portal_cells_a == {pr[1] : pr \in level_data.portals}
        portal_cells_b == {pr[2] : pr \in level_data.portals}
        tiles ==
            [p \in DOMAIN level_data.map |->
                IF p \in level_data.terminals THEN TILE_TERMINAL
                ELSE IF p \in DOMAIN level_data.items THEN level_data.items[p]
                ELSE IF p \in portal_cells_b THEN TILE_PORTAL_B
                ELSE IF p \in portal_cells_a THEN TILE_PORTAL_A
                ELSE IF p \in missing THEN TILE_SWITCH
                ELSE IF p \in DOMAIN level_data.doors THEN TILE_DOOR_CLOSED
                ELSE level_data.map[p]]
        loaded ==
            [width |-> LevelWidth,
             height |-> LevelHeight,
             map |-> tiles,
             switches |-> [s \in switch_positions |->
                             {d \in DOMAIN level_data.doors :
                                 s \in level_data.doors[d].required_switches}],
             doors |-> level_data.doors,
             portals |-> [p \in portal_cells_a \cup portal_cells_b |->
                            LET pr == CHOOSE q \in level_data.portals : p \in {q[1], q[2]}
                            IN IF p = pr[1] THEN pr[2] ELSE pr[1]],
             items |-> level_data.items,
             terminals |-> level_data.terminals,
             activated_switches |-> {},
             level_completed |-> FALSE,
             calls |-> <<>>]
    IN \* "Call initial door update" (optimized_game.py:945-946)
       _update_doors(loaded)

(***************************************************************************)
(* Player (entities.py:67-340)                                             *)
(***************************************************************************)
NewPlayer(x, y) ==
    [x |-> x, y |-> y, keys |-> 0,
     energy |-> PLAYER_START_ENERGY, energy_max |-> PLAYER_START_ENERGY,
     facing |-> "right", history |-> <<>>]

Min(a, b) == IF a < b THEN a ELSE b

\* record_position without the comparison against the last entry.
record_position_skip(p) == p

record_position_always(p) ==
    LET appended == Append(p.history, [x |-> p.x, y |-> p.y, direction |-> p.facing])
    IN [p EXCEPT !.history = IF Len(appended) > MAX_HISTORY
                             THEN Tail(appended)
                             ELSE appended]

\* record_position dropping the newest entry instead of the oldest.
record_position_drop_newest(p) ==
    IF p.history = <<>>
       \/ <<p.x, p.y>> # <<p.history[Len(p.history)].x, p.history[Len(p.history)].y>>
    THEN LET appended == Append(p.history, [x |-> p.x, y |-> p.y, direction |-> p.facing])
         IN [p EXCEPT !.history = IF Len(appended) > MAX_HISTORY
                                  THEN SubSeq(appended, 1, MAX_HISTORY)
                                  ELSE appended]
    ELSE p

record_position(p) ==
    IF p.history = <<>>
       \/ <<p.x, p.y>> # <<p.history[Len(p.history)].x, p.history[Len(p.history)].y>>
    THEN LET current_state == [x |-> p.x, y |-> p.y, direction |-> p.facing]
             appended == Append(p.history, current_state)
         IN [p EXCEPT !.history = IF Len(appended) > MAX_HISTORY
                                  THEN Tail(appended)
                                  ELSE appended]
    ELSE p

Facing(dx, dy, old) ==
    IF dx > 0 THEN "right"
    ELSE IF dx < 0 THEN "left"
    ELSE IF dy > 0 THEN "down"
    ELSE IF dy < 0 THEN "up"
    ELSE old

\* Stepping off a switch without releasing it.
StepOffSwitch_never(p, w) == w

\* "Stepping OFF a switch?" (entities.py:139-140, 155-156, 179-180)
StepOffSwitch(p, w) ==
    IF get_tile_at(w, p.x, p.y) = TILE_SWITCH
    THEN deactivate_switch(w, p.x, p.y)
    ELSE w

move(p0, w, dx, dy) ==
    LET p1 == record_position(p0)
        p == [p1 EXCEPT !.facing = Facing(dx, dy, @)]
        new_x == p.x + dx
        new_y == p.y + dy
        tile == get_tile_at(w, new_x, new_y)
        portal_pos == get_paired_portal(w, <<new_x, new_y>>)
        Complete(pp, ww) ==
            [player |-> [pp EXCEPT !.x = new_x, !.y = new_y],
             world |-> StepOffSwitch(pp, ww),
             ret |-> TRUE]
    IN IF is_walkable(w, new_x, new_y)
       THEN IF tile = TILE_SWITCH
            THEN Complete(p, activate_switch(w, new_x, new_y))
            ELSE IF tile = TILE_EXIT
            THEN [player |-> p,
                  world |-> [w EXCEPT !.level_completed = TRUE],
                  ret |-> FALSE]
            ELSE IF (tile = TILE_PORTAL_A \/ tile = TILE_PORTAL_B) /\ portal_pos # <<>>
            THEN [player |-> record_position(
                                [p EXCEPT !.x = portal_pos[1], !.y = portal_pos[2]]),
                  world |-> StepOffSwitch(p, w),
                  ret |-> TRUE]
            ELSE IF tile = TILE_ITEM_KEY
            THEN Complete([p EXCEPT !.keys = @ + 1], remove_item(w, new_x, new_y))
            ELSE IF tile = TILE_ITEM_POTION
            THEN Complete([p EXCEPT !.energy = Min(p.energy_max, @ + 1)],
                          remove_item(w, new_x, new_y))
            ELSE Complete(p, w)
       ELSE IF tile = TILE_DOOR_CLOSED
       THEN LET is_key_door == <<new_x, new_y>> = KeyDoorPos
            IN IF is_key_door /\ p.keys > 0
               THEN Complete([p EXCEPT !.keys = @ - 1], open_door(w, new_x, new_y))
               ELSE [player |-> p, world |-> w, ret |-> FALSE]
       ELSE [player |-> p, world |-> w, ret |-> FALSE]

(***************************************************************************)
(* TimeClone (entities.py:342-410).  updates, log and walked are history   *)
(* fields: the number of update calls made on the clone, the switch calls  *)
(* it has issued, and the switch calls the live mover issued on the same   *)
(* stretch of its history.                                                 *)
(***************************************************************************)
NewTimeClone(x, y, history) ==
    [x |-> x, y |-> y, history |-> history, current_step |-> 0,
     facing |-> IF history # <<>> THEN history[1].direction ELSE "right",
     active |-> TRUE,
     updates |-> 0, log |-> <<>>, walked |-> <<>>]

\* update keeping the switch of the final tile activated.
CloneUpdate_keeping(c, w) ==
    IF ~c.active \/ c.current_step >= Len(c.history)
    THEN [clone |-> [c EXCEPT !.active = FALSE], world |-> w, ret |-> FALSE]
    ELSE LET next_state == c.history[c.current_step + 1]
             w1 == IF get_tile_at(w, c.x, c.y) = TILE_SWITCH
                   THEN deactivate_switch(w, c.x, c.y)
                   ELSE w
             w2 == IF get_tile_at(w1, next_state.x, next_state.y) = TILE_SWITCH
                   THEN activate_switch(w1, next_state.x, next_state.y)
                   ELSE w1
             finished == c.current_step + 1 >= Len(c.history)
         IN [clone |-> [c EXCEPT !.facing = next_state.direction,
                                 !.x = next_state.x,
                                 !.y = next_state.y,
                                 !.current_step = @ + 1,
                                 !.active = ~finished],
             world |-> w2,
             ret |-> ~finished]

\* update finishing one call late.
CloneUpdate_late(c, w) ==
    IF ~c.active \/ c.current_step >= Len(c.history)
    THEN [clone |-> [c EXCEPT !.active = FALSE], world |-> w, ret |-> FALSE]
    ELSE LET next_state == c.history[c.current_step + 1]
             w1 == IF get_tile_at(w, c.x, c.y) = TILE_SWITCH
                   THEN deactivate_switch(w, c.x, c.y)
                   ELSE w
             w2 == IF get_tile_at(w1, next_state.x, next_state.y) = TILE_SWITCH
                   THEN activate_switch(w1, next_state.x, next_state.y)
                   ELSE w1
             finished == c.current_step + 1 > Len(c.history)
         IN [clone |-> [c EXCEPT !.facing = next_state.direction,
                                 !.x = next_state.x,
                                 !.y = next_state.y,
                                 !.current_step = @ + 1,
                                 !.active = ~finished],
             world |-> w2,
             ret |-> ~finished]

\* update rewriting the clone's path as it replays it.
CloneUpdate_rewriting(c, w) ==
    IF ~c.active \/ c.current_step >= Len(c.history)
    THEN [clone |-> [c EXCEPT !.active = FALSE], world |-> w, ret |-> FALSE]
    ELSE LET next_state == c.history[c.current_step + 1]
             w1 == IF get_tile_at(w, c.x, c.y) = TILE_SWITCH
                   THEN deactivate_switch(w, c.x, c.y)
                   ELSE w
             w2 == IF get_tile_at(w1, next_state.x, next_state.y) = TILE_SWITCH
                   THEN activate_switch(w1, next_state.x, next_state.y)
                   ELSE w1
             finished == c.current_step + 1 >= Len(c.history)
             w3 == IF finished /\ get_tile_at(w2, next_state.x, next_state.y) = TILE_SWITCH
                   THEN deactivate_switch(w2, next_state.x, next_state.y)
                   ELSE w2
         IN [clone |-> [c EXCEPT !.facing = next_state.direction,
                                 !.x = next_state.x,
                                 !.y = next_state.y,
                                 !.current_step = @ + 1,
                                 !.active = ~finished,
                                 !.history = [i \in DOMAIN @ |-> next_state]],
             world |-> w3,
             ret |-> ~finished]

\* update acting on the tile it arrives on as the live mover's step does.
CloneUpdate_collecting(c, w) ==
    IF ~c.active \/ c.current_step >= Len(c.history)
    THEN [clone |-> [c EXCEPT !.active = FALSE], world |-> w, ret |-> FALSE]
    ELSE LET next_state == c.history[c.current_step + 1]
             w1 == IF get_tile_at(w, c.x, c.y) = TILE_SWITCH
                   THEN deactivate_switch(w, c.x, c.y)
                   ELSE w
             w2 == IF get_tile_at(w1, next_state.x, next_state.y) = TILE_SWITCH
                   THEN activate_switch(w1, next_state.x, next_state.y)
                   ELSE w1
             finished == c.current_step + 1 >= Len(c.history)
             w3 == IF finished /\ get_tile_at(w2, next_state.x, next_state.y) = TILE_SWITCH
                   THEN deactivate_switch(w2, next_state.x, next_state.y)
                   ELSE w2
             tile == get_tile_at(w3, next_state.x, next_state.y)
             w4 == IF tile \in {TILE_ITEM_KEY, TILE_ITEM_POTION}
                   THEN remove_item(w3, next_state.x, next_state.y)
                   ELSE IF tile = TILE_EXIT
                   THEN [w3 EXCEPT !.level_completed = TRUE]
                   ELSE w3
         IN [clone |-> [c EXCEPT !.facing = next_state.direction,
                                 !.x = next_state.x,
                                 !.y = next_state.y,
                                 !.current_step = @ + 1,
                                 !.active = ~finished],
             world |-> w4,
             ret |-> ~finished]

\* TimeClone.update leaving the switch it steps off as it is.
CloneUpdate_treading(c, w) ==
    IF ~c.active \/ c.current_step >= Len(c.history)
    THEN [clone |-> [c EXCEPT !.active = FALSE], world |-> w, ret |-> FALSE]
    ELSE LET next_state == c.history[c.current_step + 1]
             w1 == w
             w2 == IF get_tile_at(w1, next_state.x, next_state.y) = TILE_SWITCH
                   THEN activate_switch(w1, next_state.x, next_state.y)
                   ELSE w1
             finished == c.current_step + 1 >= Len(c.history)
             \* "If clone finishes on a switch, ensure it stays deactivated"
             w3 == IF finished /\ get_tile_at(w2, next_state.x, next_state.y) = TILE_SWITCH
                   THEN deactivate_switch(w2, next_state.x, next_state.y)
                   ELSE w2
         IN [clone |-> [c EXCEPT !.facing = next_state.direction,
                                 !.x = next_state.x,
                                 !.y = next_state.y,
                                 !.current_step = @ + 1,
                                 !.active = ~finished],
             world |-> w3,
             ret |-> ~finished]

CloneUpdate(c, w) ==
    IF ~c.active \/ c.current_step >= Len(c.history)
    THEN [clone |-> [c EXCEPT !.active = FALSE], world |-> w, ret |-> FALSE]
    ELSE LET next_state == c.history[c.current_step + 1]
             w1 == IF get_tile_at(w, c.x, c.y) = TILE_SWITCH
                   THEN deactivate_switch(w, c.x, c.y)
                   ELSE w
             w2 == IF get_tile_at(w1, next_state.x, next_state.y) = TILE_SWITCH
                   THEN activate_switch(w1, next_state.x, next_state.y)
                   ELSE w1
             finished == c.current_step + 1 >= Len(c.history)
             \* "If clone finishes on a switch, ensure it stays deactivated"
             w3 == IF finished /\ get_tile_at(w2, next_state.x, next_state.y) = TILE_SWITCH
                   THEN deactivate_switch(w2, next_state.x, next_state.y)
                   ELSE w2
         IN [clone |-> [c EXCEPT !.facing = next_state.direction,
                                 !.x = next_state.x,
                                 !.y = next_state.y,
                                 !.current_step = @ + 1,
                                 !.active = ~finished],
             world |-> w3,
             ret |-> ~finished]

(***************************************************************************)
(* Player.time_travel (entities.py:269-318)                                *)
(***************************************************************************)
\* time_travel replaying the most recent `steps` entries instead of the
\* entries before them.
time_travel_suffix(p, cl, steps) ==
    IF p.energy <= 0 \/ steps < 1 \/ steps >= Len(p.history)
    THEN [player |-> p, clones |-> cl, ret |-> FALSE, msg |-> "failed"]
    ELSE LET history_slice == SubSeq(p.history, Len(p.history) - steps + 1, Len(p.history))
         IN [player |-> [p EXCEPT !.energy = @ - 1],
             clones |-> Append(cl, NewTimeClone(history_slice[1].x, history_slice[1].y,
                                                history_slice)),
             ret |-> TRUE,
             msg |-> "none"]

\* time_travel charging the energy before it validates the step count.
time_travel_charging(p, cl, steps) ==
    IF p.energy <= 0
    THEN [player |-> p, clones |-> cl, ret |-> FALSE, msg |-> "Not enough energy!"]
    ELSE IF steps < 1 \/ steps >= Len(p.history)
    THEN [player |-> [p EXCEPT !.energy = @ - 1], clones |-> cl, ret |-> FALSE,
          msg |-> "Invalid steps"]
    ELSE LET history_slice == SubSeq(p.history, 1, Len(p.history) - steps)
         IN [player |-> [p EXCEPT !.energy = @ - 1],
             clones |-> Append(cl, NewTimeClone(history_slice[1].x, history_slice[1].y,
                                                history_slice)),
             ret |-> TRUE,
             msg |-> "none"]

\* time_travel without the energy test.
time_travel_unpaid(p, cl, steps) ==
    IF steps < 1 \/ steps >= Len(p.history)
    THEN [player |-> p, clones |-> cl, ret |-> FALSE, msg |-> "Invalid steps"]
    ELSE LET history_slice == SubSeq(p.history, 1, Len(p.history) - steps)
         IN [player |-> [p EXCEPT !.energy = @ - 1],
             clones |-> Append(cl, NewTimeClone(history_slice[1].x, history_slice[1].y,
                                                history_slice)),
             ret |-> TRUE,
             msg |-> "none"]

time_travel(p, cl, steps) ==
    IF p.energy <= 0
    THEN [player |-> p, clones |-> cl, ret |-> FALSE, msg |-> "Not enough energy!"]
    ELSE IF steps < 1 \/ steps >= Len(p.history)
    THEN [player |-> p, clones |-> cl, ret |-> FALSE, msg |-> "Invalid steps"]
    ELSE LET history_slice == SubSeq(p.history, 1, Len(p.history) - steps)
         IN IF history_slice = <<>>
            THEN [player |-> p, clones |-> cl, ret |-> FALSE,
                  msg |-> "Not enough history recorded for this travel!"]
            ELSE LET start_state == history_slice[1]
                     new_clone == NewTimeClone(start_state.x, start_state.y, history_slice)
                 IN [player |-> [p EXCEPT !.energy = @ - 1],
                     clones |-> Append(cl, new_clone),
                     ret |-> TRUE,
                     msg |-> "none"]

(***************************************************************************)
(* Player.interact (entities.py:320-340)                                   *)
(***************************************************************************)
InteractOffsets == << <<0, 0>>, <<0, 1>>, <<0, -1>>, <<1, 0>>, <<-1, 0>> >>

interact(p, w) ==
    LET hit(i) == get_tile_at(w, p.x + InteractOffsets[i][1], p.y + InteractOffsets[i][2])
                     \in {TILE_TERMINAL, TILE_SWITCH}
        found == {i \in 1 .. Len(InteractOffsets) : hit(i)}
    IN IF found = {}
       THEN [world |-> w, msg |-> "keep"]
       ELSE LET first == CHOOSE i \in found : \A j \in found : i <= j
                check_x == p.x + InteractOffsets[first][1]
                check_y == p.y + InteractOffsets[first][2]
            IN IF get_tile_at(w, check_x, check_y) = TILE_TERMINAL
               THEN [world |-> w,
                     msg |-> IF activate_terminal(w, check_x, check_y) # <<>>
                             THEN "terminal" ELSE "keep"]
               ELSE IF <<check_x, check_y>> \in w.activated_switches
               THEN [world |-> deactivate_switch(w, check_x, check_y),
                     msg |-> "Switch deactivated."]
               ELSE [world |-> activate_switch(w, check_x, check_y),
                     msg |-> "Switch activated!"]

(***************************************************************************)
(* Guard (entities.py:412-635).  looked and sees are history fields: that  *)
(* the guard has tested its line of sight, and the last result.            *)
(***************************************************************************)
NewGuard(x, y) ==
    [x |-> x, y |-> y, state |-> GUARD_PATROLLING, view_distance |-> GuardViewDistance,
     alert_timer |-> 0,
     target_position |-> <<>>,
     patrol_route |-> << <<x, y>>, <<x + 4, y>>, <<x + 4, y + 4>>, <<x, y + 4>> >>,
     patrol_index |-> 0,
     patrol_timer |-> 0,
     looked |-> FALSE, sees |-> FALSE, was |-> GUARD_PATROLLING]

Max(a, b) == IF a > b THEN a ELSE b

\* _can_see_player returning true for any mover within the view distance
\* that is on neither the guard's row nor its column.
_can_see_player_around(g, p, w) ==
    LET square == (p.x - g.x) * (p.x - g.x) + (p.y - g.y) * (p.y - g.y)
    IN square <= g.view_distance * g.view_distance /\ g.x # p.x /\ g.y # p.y

_can_see_player(g, p, w) ==
    LET \* math.sqrt(square) > view_distance, compared on the squares
        square == (p.x - g.x) * (p.x - g.x) + (p.y - g.y) * (p.y - g.y)
    IN IF square > g.view_distance * g.view_distance
       THEN FALSE
       ELSE IF g.x = p.x
       THEN \A y \in Min(g.y, p.y) .. Max(g.y, p.y) : is_transparent(w, g.x, y)
       ELSE IF g.y = p.y
       THEN \A x \in Min(g.x, p.x) .. Max(g.x, p.x) : is_transparent(w, x, g.y)
       ELSE FALSE

Abs(a) == IF a < 0 THEN -a ELSE a

\* alert sending the guard straight after the mover.
alert_chasing(g, player_pos) ==
    [g EXCEPT !.state = GUARD_CHASING,
              !.alert_timer = alert_duration,
              !.target_position = player_pos]

\* Guard.alert (entities.py:517-526)
alert(g, player_pos) ==
    [g EXCEPT !.state = GUARD_ALERTED,
              !.alert_timer = alert_duration,
              !.target_position = player_pos]

\* Guard._try_move (entities.py:564-591); the direction it sets is only drawn.
_try_move(g, dx, dy, w) ==
    LET new_x == g.x + dx
        new_y == g.y + dy
    IN IF is_walkable(w, new_x, new_y)
       THEN [guard |-> [g EXCEPT !.x = new_x, !.y = new_y], ret |-> TRUE]
       ELSE [guard |-> g, ret |-> FALSE]

\* _move_toward trying the horizontal step first whatever the distances.
_move_toward_horizontal(g, target_x, target_y, w) ==
    LET dx == IF g.x < target_x THEN 1 ELSE IF g.x > target_x THEN -1 ELSE 0
        dy == IF g.y < target_y THEN 1 ELSE IF g.y > target_y THEN -1 ELSE 0
        horizontal == _try_move(g, dx, 0, w)
        vertical == _try_move(g, 0, dy, w)
        diagonal == _try_move(g, dx, dy, w)
    IN IF horizontal.ret THEN horizontal.guard
       ELSE IF vertical.ret THEN vertical.guard
       ELSE diagonal.guard

\* Guard._move_toward (entities.py:528-562)
_move_toward(g, target_x, target_y, w) ==
    LET dx == IF g.x < target_x THEN 1 ELSE IF g.x > target_x THEN -1 ELSE 0
        dy == IF g.y < target_y THEN 1 ELSE IF g.y > target_y THEN -1 ELSE 0
        horizontal == _try_move(g, dx, 0, w)
        vertical == _try_move(g, 0, dy, w)
        diagonal == _try_move(g, dx, dy, w)
    IN IF Abs(target_x - g.x) > Abs(target_y - g.y)
       THEN IF horizontal.ret THEN horizontal.guard
            ELSE IF vertical.ret THEN vertical.guard
            ELSE diagonal.guard
       ELSE IF vertical.ret THEN vertical.guard
            ELSE IF horizontal.ret THEN horizontal.guard
            ELSE diagonal.guard

\* A call of _can_see_player from where the guard stands, noted in the
\* history fields looked and sees.
Looking(g, p, w) ==
    [g EXCEPT !.looked = TRUE, !.sees = _can_see_player(g, p, w)]

\* Patrolling, after the move: "Check for player in line of sight"
\* (entities.py:475-478)
PatrolLook(looking, p) ==
    IF looking.sees THEN alert(looking, <<p.x, p.y>>) ELSE looking

\* An alert that always ends in a chase, seen or not.
AlertExpired_hasty(looking, p) ==
    [looking EXCEPT !.state = GUARD_CHASING, !.target_position = <<p.x, p.y>>]

\* Alerted, the timer at zero or below (entities.py:484-491)
AlertExpired(looking, p) ==
    IF looking.sees
    THEN [looking EXCEPT !.state = GUARD_CHASING, !.target_position = <<p.x, p.y>>]
    ELSE [looking EXCEPT !.state = GUARD_PATROLLING]

\* A chase given up as soon as the mover is out of sight.
ChaseLook_fickle(looking, target_x, target_y, p) ==
    IF looking.sees
    THEN [looking EXCEPT !.target_position = <<p.x, p.y>>]
    ELSE [looking EXCEPT !.state = GUARD_PATROLLING]

\* Chasing, after the move toward <<target_x, target_y>> (entities.py:502-506)
ChaseLook(looking, target_x, target_y, p) ==
    IF looking.sees
    THEN [looking EXCEPT !.target_position = <<p.x, p.y>>]
    ELSE IF looking.x = target_x /\ looking.y = target_y
    THEN [looking EXCEPT !.state = GUARD_PATROLLING]
    ELSE looking

\* A collision check that never reports the mover caught.
Collide_never(chased, p) ==
    [guard |-> chased, caught |-> FALSE]

\* Chasing: "Check for player collision" (entities.py:512-515)
Collide(chased, p) ==
    [guard |-> chased, caught |-> chased.x = p.x /\ chased.y = p.y]

\* Guard.update with the visibility test made during the patrol wait too.
GuardUpdate_watchful(g0, p, w, dt) ==
    LET g == [g0 EXCEPT !.looked = FALSE, !.sees = FALSE, !.was = g0.state]
    IN IF g.state = GUARD_PATROLLING
       THEN IF g.patrol_timer > 0
            THEN [guard |-> PatrolLook(Looking([g EXCEPT !.patrol_timer = @ - dt], p, w), p),
                  caught |-> FALSE]
            ELSE LET target == g.patrol_route[g.patrol_index + 1]
                 IN IF g.x = target[1] /\ g.y = target[2]
                    THEN [guard |-> [g EXCEPT !.patrol_index =
                                                 (@ + 1) % Len(g.patrol_route),
                                              !.patrol_timer = patrol_wait],
                          caught |-> FALSE]
                    ELSE [guard |-> PatrolLook(
                                       Looking(_move_toward(g, target[1], target[2], w),
                                            p, w), p),
                          caught |-> FALSE]
       ELSE IF g.state = GUARD_ALERTED
       THEN IF g.alert_timer - dt <= 0
            THEN [guard |-> AlertExpired(
                               Looking([g EXCEPT !.alert_timer = @ - dt], p, w), p),
                  caught |-> FALSE]
            ELSE [guard |-> [g EXCEPT !.alert_timer = @ - dt], caught |-> FALSE]
       ELSE IF g.state = GUARD_CHASING
       THEN Collide(IF g.target_position # <<>>
                    THEN ChaseLook(
                            Looking(_move_toward(g, g.target_position[1],
                                              g.target_position[2], w), p, w),
                            g.target_position[1], g.target_position[2], p)
                    ELSE [g EXCEPT !.state = GUARD_PATROLLING],
                    p)
       ELSE [guard |-> g, caught |-> FALSE]

\* Guard.update (entities.py:448-515).  looked, sees and was are history
\* fields: whether this update called _can_see_player, what the call
\* returned, and the state the guard was in when the update began.
\* caught is what the update assigns to game_state.player_caught.
GuardUpdate(g0, p, w, dt) ==
    LET g == [g0 EXCEPT !.looked = FALSE, !.sees = FALSE, !.was = g0.state]
    IN IF g.state = GUARD_PATROLLING
       THEN IF g.patrol_timer > 0
            THEN [guard |-> [g EXCEPT !.patrol_timer = @ - dt], caught |-> FALSE]
            ELSE LET target == g.patrol_route[g.patrol_index + 1]
                 IN IF g.x = target[1] /\ g.y = target[2]
                    THEN [guard |-> [g EXCEPT !.patrol_index =
                                                 (@ + 1) % Len(g.patrol_route),
                                              !.patrol_timer = patrol_wait],
                          caught |-> FALSE]
                    ELSE [guard |-> PatrolLook(
                                       Looking(_move_toward(g, target[1], target[2], w),
                                            p, w), p),
                          caught |-> FALSE]
       ELSE IF g.state = GUARD_ALERTED
       THEN IF g.alert_timer - dt <= 0
            THEN [guard |-> AlertExpired(
                               Looking([g EXCEPT !.alert_timer = @ - dt], p, w), p),
                  caught |-> FALSE]
            ELSE [guard |-> [g EXCEPT !.alert_timer = @ - dt], caught |-> FALSE]
       ELSE IF g.state = GUARD_CHASING
       THEN Collide(IF g.target_position # <<>>
                    THEN ChaseLook(
                            Looking(_move_toward(g, g.target_position[1],
                                              g.target_position[2], w), p, w),
                            g.target_position[1], g.target_position[2], p)
                    ELSE [g EXCEPT !.state = GUARD_PATROLLING],
                    p)
       ELSE [guard |-> g, caught |-> FALSE]

\* The guard loop of update() (optimized_game.py:251-253): every guard reads
\* the mover and the world only, so the updates are taken guard by guard.
UpdateGuards(gs, p, w, dt) ==
    LET Gathered(rs) ==
            [guards |-> [i \in DOMAIN rs |-> rs[i].guard],
             player_caught |-> \E i \in DOMAIN rs : rs[i].caught]
    IN Gathered([i \in DOMAIN gs |-> GuardUpdate(gs[i], p, w, dt)])

\* Player.update, "Check for collisions with guards" (entities.py:263-267)
PlayerUpdate(gs, p) ==
    [i \in DOMAIN gs |->
        IF p.x = gs[i].x /\ p.y = gs[i].y /\ gs[i].state # GUARD_CHASING
        THEN alert(gs[i], <<p.x, p.y>>)
        ELSE gs[i]]

(***************************************************************************)
(* History bookkeeping: hcalls[i] is the sequence of switch calls the live *)
(* mover issued in the steps it took from history[i]; it is appended to    *)
(* and evicted together with player.history.                               *)
(***************************************************************************)
RECURSIVE Flatten(_)
Flatten(seqs) == IF seqs = <<>> THEN <<>> ELSE Head(seqs) \o Flatten(Tail(seqs))

Recorded(hc, before, after) ==
    IF after.history = before.history THEN hc
    ELSE LET appended == Append(hc, <<>>)
         IN IF Len(appended) > MAX_HISTORY THEN Tail(appended) ELSE appended

Quiet(w) == [w EXCEPT !.calls = <<>>]

(***************************************************************************)
(* OptimizedGame.update (optimized_game.py:214-280)                        *)
(***************************************************************************)
\* What is kept of a clone that update() has dropped from the list.
Replay(c) ==
    [n |-> Len(c.history), updates |-> c.updates,
     log |-> c.log, walked |-> c.walked]

\* The clone loop keeping every clone it has updated.
RECURSIVE UpdateClones_keeping_all(_, _)
UpdateClones_keeping_all(cs, w) ==
    IF cs = <<>>
    THEN [active_clones |-> <<>>, removed |-> <<>>, world |-> w]
    ELSE LET r == CloneUpdate(Head(cs), Quiet(w))
             c == [r.clone EXCEPT !.updates = @ + 1, !.log = @ \o r.world.calls]
             rest == UpdateClones_keeping_all(Tail(cs), r.world)
         IN [active_clones |-> <<c>> \o rest.active_clones,
             removed |-> rest.removed,
             world |-> rest.world]

\* The clone loop going through the list from its newest clone to its oldest.
RECURSIVE UpdateClones_newest_first(_, _)
UpdateClones_newest_first(cs, w) ==
    IF cs = <<>>
    THEN [active_clones |-> <<>>, removed |-> <<>>, world |-> w]
    ELSE LET r == CloneUpdate(cs[Len(cs)], Quiet(w))
             c == [r.clone EXCEPT !.updates = @ + 1, !.log = @ \o r.world.calls]
             rest == UpdateClones_newest_first(SubSeq(cs, 1, Len(cs) - 1), r.world)
         IN [active_clones |-> IF r.ret THEN rest.active_clones \o <<c>>
                                        ELSE rest.active_clones,
             removed |-> IF r.ret THEN rest.removed ELSE rest.removed \o <<Replay(c)>>,
             world |-> rest.world]

RECURSIVE UpdateClones(_, _)
UpdateClones(cs, w) ==
    IF cs = <<>>
    THEN [active_clones |-> <<>>, removed |-> <<>>, world |-> w]
    ELSE LET r == CloneUpdate(Head(cs), Quiet(w))
             c == [r.clone EXCEPT !.updates = @ + 1, !.log = @ \o r.world.calls]
             rest == UpdateClones(Tail(cs), r.world)
         IN [active_clones |-> IF r.ret THEN <<c>> \o rest.active_clones
                                        ELSE rest.active_clones,
             removed |-> IF r.ret THEN rest.removed ELSE <<Replay(c)>> \o rest.removed,
             world |-> rest.world]

\* self.dt (optimized_game.py:217): the time of the last frame, capped at a
\* tenth of a second; the frames of the model have the capped length.
Dts == {1}

Directions == {<<0, -1>>, <<0, 1>>, <<-1, 0>>, <<1, 0>>}

\* One frame.  <<dx, dy>> is the direction key held when the movement delay
\* has elapsed (<<0, 0>>: no step this frame).
Frame(p, w, cs, gs, st, dx, dy, dt) ==
    LET Guarded(m, u, ug) ==
            [step |-> m,
             player |-> m.player,
             active_clones |-> u.active_clones,
             removed |-> u.removed,
             guards |-> PlayerUpdate(ug.guards, m.player),
             world |-> u.world,
             state |-> IF ug.player_caught
                       THEN STATE_GAME_OVER
                       ELSE IF u.world.level_completed
                       THEN STATE_LEVEL_COMPLETE
                       ELSE st]
        Cloned(m, u) == Guarded(m, u, UpdateGuards(gs, m.player, u.world, dt))
        Stepped(m) == Cloned(m, UpdateClones(cs, m.world))
    IN Stepped(IF dx # 0 \/ dy # 0
               THEN move(p, Quiet(w), dx, dy)
               ELSE [player |-> p, world |-> Quiet(w), ret |-> FALSE])

Update(dx, dy) ==
    /\ state = STATE_PLAYING
    /\ \E dt \in Dts :
       \E f \in {Frame(player, world, clones, guards, state, dx, dy, dt)} :
       LET stepping == dx # 0 \/ dy # 0
           m == f.step
           p1 == IF stepping THEN record_position(player) ELSE player
           hc1 == Recorded(hcalls, player, p1)
           hc2 == IF stepping /\ m.world.calls # <<>>
                  THEN [hc1 EXCEPT ![Len(hc1)] = @ \o m.world.calls]
                  ELSE hc1
       IN /\ player' = f.player
          /\ hcalls' = Recorded(hc2, p1, f.player)
          /\ key_opened' = IF f.player.keys < player.keys
                           THEN key_opened \cup {<<player.x + dx, player.y + dy>>}
                           ELSE key_opened
          /\ clones' = f.active_clones
          /\ retired' = f.removed
          /\ guards' = f.guards
          /\ world' = Quiet(f.world)
          /\ state' = f.state

(***************************************************************************)
(* Key presses (optimized_game.py:565-605, 1029-1052)                      *)
(***************************************************************************)
\* The switch calls the live mover issued while it walked the first n
\* entries of its history, the call with which it left the n-th, and the
\* call with which it would have arrived on the first.
Walked(hc, hist, n) ==
    [arriving |-> << <<"activate", <<hist[1].x, hist[1].y>> >> >>,
     within |-> Flatten(SubSeq(hc, 1, n - 1)),
     leaving |-> SelectSeq(hc[n],
                    LAMBDA call : call = <<"deactivate", <<hist[n].x, hist[n].y>> >>)]

\* K_t while playing, the digits of `steps`, then K_RETURN at the prompt.
\* update() simulates nothing while the prompt is open (state is
\* STATE_TIME_TRAVEL), so the three key presses are one step of the model.
TimeTravel(steps) ==
    /\ state = STATE_PLAYING
    /\ LET max_steps == Len(player.history) - 1
           t == time_travel(player, clones, steps)
           n == Len(player.history) - steps
       IN IF 1 <= steps /\ steps <= max_steps
          THEN /\ player' = t.player
               /\ clones' = IF t.ret
                            THEN [t.clones EXCEPT ![Len(t.clones)].walked =
                                     Walked(hcalls, player.history, n)]
                            ELSE t.clones
          ELSE UNCHANGED <<player, clones>>
    /\ UNCHANGED <<world, guards, state, hcalls, retired, key_opened>>

\* K_e while playing
Interact ==
    /\ state = STATE_PLAYING
    /\ world' = Quiet(interact(player, Quiet(world)).world)
    /\ UNCHANGED <<player, clones, guards, state, hcalls, retired, key_opened>>

Loaded(level_data) ==
    /\ world = SetupLevel(level_data)
    /\ player = NewPlayer(level_data.player_start[1], level_data.player_start[2])
    /\ clones = <<>>
    /\ \E target_pos \in [1 .. Len(level_data.guards) ->
                             IF level_data.switches = {} THEN {<<>>}
                             ELSE level_data.switches] :
          guards = [i \in 1 .. Len(level_data.guards) |->
                      LET guard_pos == level_data.guards[i]
                      IN [NewGuard(guard_pos[1], guard_pos[2]) EXCEPT
                            !.patrol_route =
                               IF level_data.switches # {}
                               THEN <<guard_pos, target_pos[i], guard_pos>>
                               ELSE <<guard_pos>>]]
    /\ state = STATE_PLAYING
    /\ hcalls = <<>>
    /\ retired = <<>>
    /\ key_opened = {}

Init == Loaded(LevelData)

Next ==
    \/ \E d \in Directions \cup {<<0, 0>>} : Update(d[1], d[2])
    \/ \E steps \in 0 .. MaxStepsInput : Len(clones) < MaxReplaying /\ TimeTravel(steps)
    \/ Interact

Spec == Init /\ [][Next]_vars

\* The corridor level, with no limit on the clones replaying at once.
InitCrowd == Loaded(CorridorData)

NextCrowd ==
    \/ \E d \in Directions \cup {<<0, 0>>} : Update(d[1], d[2])
    \/ \E steps \in 0 .. MaxStepsInput : TimeTravel(steps)

SpecCrowd == InitCrowd /\ [][NextCrowd]_vars

\* The level loaded from a level file; the time-travel prompt is not used.
InitFile == Loaded(FileLevelData)

NextFile ==
    \/ \E d \in Directions \cup {<<0, 0>>} : Update(d[1], d[2])
    \/ Interact

SpecFile == InitFile /\ [][NextFile]_vars

\* The level with the key below the switch; the time-travel prompt is not
\* used.
InitSteps == Loaded(StepsData)

NextSteps ==
    \/ \E d \in Directions \cup {<<0, 0>>} : Update(d[1], d[2])
    \/ Interact

SpecSteps == InitSteps /\ [][NextSteps]_vars

\* The level whose door names a switch missing from the switch list; the
\* time-travel prompt is not used.
InitPatched == Loaded(PatchedData)

NextPatched ==
    \/ \E d \in Directions \cup {<<0, 0>>} : Update(d[1], d[2])
    \/ Interact

SpecPatched == InitPatched /\ [][NextPatched]_vars

\* Guard._move_toward on its own: a guard posted on any free cell of a block
\* of three by three cells, any of which may be a wall, heading for any cell
\* of the block.
TowardCells == (1 .. 3) \X (0 .. 2)

TowardData(free, guard_pos) ==
    [map |-> [p \in Positions |-> IF p \in free THEN TILE_FLOOR ELSE TILE_WALL],
     player_start |-> guard_pos,
     switches |-> {},
     doors |-> <<>>,
     portals |-> {},
     items |-> <<>>,
     guards |-> <<guard_pos>>,
     terminals |-> {}]

MoveToward(t) ==
    /\ guards' = [i \in DOMAIN guards |-> _move_toward(guards[i], t[1], t[2], world)]
    /\ UNCHANGED <<world, player, clones, state, hcalls, retired, key_opened>>

InitToward == \E free \in SUBSET TowardCells : \E guard_pos \in free :
                 Loaded(TowardData(free, guard_pos))

NextToward == \E t \in TowardCells : MoveToward(t)

SpecToward == InitToward /\ [][NextToward]_vars

\* The level with the door between guard and mover; the time-travel prompt is
\* not used.  The main loop (optimized_game.py:124-212) runs update() once
\* per pass for as long as the session lasts: a frame that can change the
\* state is not put off for ever.
InitChase == Loaded(ChaseData)

Frames == \E d \in Directions \cup {<<0, 0>>} : Update(d[1], d[2])

NextChase ==
    \/ Frames
    \/ Interact

SpecChase == InitChase /\ [][NextChase]_vars /\ WF_vars(Frames)

\* The level with the patrolling guard; the time-travel prompt and the
\* interaction key are not used.
InitPatrol == Loaded(PatrolData)

NextPatrol == \E d \in Directions \cup {<<0, 0>>} : Update(d[1], d[2])

SpecPatrol == InitPatrol /\ [][NextPatrol]_vars

\* The level for the order of a frame, with no limit on the clones replaying
\* at once.
InitOrder == Loaded(OrderData)

NextOrder ==
    \/ \E d \in Directions \cup {<<0, 0>>} : Update(d[1], d[2])
    \/ \E steps \in 0 .. MaxStepsInput : TimeTravel(steps)

SpecOrder == InitOrder /\ [][NextOrder]_vars

\* The line-of-sight test each guard makes on the mover (Guard.update calls
\* _can_see_player in every guard state).
Look ==
    /\ state = STATE_PLAYING
    /\ guards' = [i \in DOMAIN guards |->
                    [guards[i] EXCEPT !.looked = TRUE,
                                      !.sees = _can_see_player(guards[i], player, world)]]
    /\ UNCHANGED <<world, player, clones, state, hcalls, retired, key_opened>>

\* The guard level, for any start of the mover and any post of the guard;
\* the mover stays where it is and works the switch.
InitSight == \E start \in SightFree : \E guard_pos \in SightFree :
                Loaded(SightData(start, guard_pos))

NextSight ==
    \/ Look
    \/ Interact

SpecSight == InitSight /\ [][NextSight]_vars

(***************************************************************************)
(* Properties                                                              *)
(***************************************************************************)
Pos(e) == <<e.x, e.y>>

\* The doors the mover cannot open with a key: Player.move takes a key only
\* for the door at KeyDoorPos.
SwitchLocked(w) == DOMAIN w.doors \ {KeyDoorPos}

\* C1: every switch-locked door is open exactly when all of its required
\* switches are activated, in every state and in the world returned by any
\* single activate_switch or deactivate_switch call made from it: the doors
\* are recomputed inside the call.
SwitchDoorsRecomputedInCall ==
    LET Follows(w) ==
            \A d \in SwitchLocked(w) :
                w.doors[d].is_open =
                    (w.doors[d].required_switches \subseteq w.activated_switches)
    IN /\ Follows(world)
       /\ \A s \in Positions :
             /\ Follows(activate_switch(world, s[1], s[2]))
             /\ Follows(deactivate_switch(world, s[1], s[2]))

\* C1 witness: a switch call has acted and left the two-switch door closed.
OneSwitchHeld == world.activated_switches = {S1} /\ ~world.doors[DoorC].is_open

\* C2: in every step, a switch-locked door whose required switches become
\* all active is open afterwards, one that loses a required switch is closed
\* afterwards, and a door that goes from closed to open has all of its
\* required switches active.
DoorOpensOnlyWithAllSwitches ==
    [][\A d \in SwitchLocked(world) :
          LET req == world.doors[d].required_switches
              had == req \subseteq world.activated_switches
              has == req \subseteq world'.activated_switches
          IN /\ (~had /\ has) => world'.doors[d].is_open
             /\ (had /\ ~has) => ~world'.doors[d].is_open
             /\ (~world.doors[d].is_open /\ world'.doors[d].is_open) => has]_vars

\* C2 witness: both switches of the two-switch door are active and it is open.
BothSwitchesHeld == {S1, S2} \subseteq world.activated_switches /\ world.doors[DoorC].is_open

\* C3: a clone that has replayed its whole path has issued exactly the
\* switch calls the live mover issued while walking that path, in the same
\* order (counted with or without the activation on arriving at the first
\* position and the deactivation on leaving the last one).
ReplayIssuesWalkedCalls ==
    \A i \in 1 .. Len(retired) :
        LET wk == retired[i].walked
        IN \E first \in {<<>>, wk.arriving} : \E last \in {<<>>, wk.leaving} :
              retired[i].log = first \o wk.within \o last

RECURSIVE Replayed(_, _, _)
Replayed(c, w, j) ==
    IF j = 0 THEN c
    ELSE LET r == CloneUpdate(c, w) IN Replayed(r.clone, r.world, j - 1)

CloneCreationAllOrNothing ==
    \A k \in 0 .. MaxStepsInput :
        LET t == time_travel(player, clones, k)
        IN IF t.ret
           THEN /\ t.player = [player EXCEPT !.energy = @ - 1]
                /\ Len(t.clones) = Len(clones) + 1
                /\ SubSeq(t.clones, 1, Len(clones)) = clones
           ELSE /\ t.player = player
                /\ t.clones = clones

\* C6 witness: one clone has been paid for, and a further request with an
\* out-of-range step count is being refused.
PaidForOneClone ==
    /\ player.energy = PLAYER_START_ENERGY - 1
    /\ Len(clones) = 1
    /\ clones[1].current_step = 0
    /\ ~time_travel(player, clones, Len(player.history)).ret

\* C7: the number of clones replaying at once never exceeds MAX_CLONES.
ClonesWithinCap == Len(clones) <= MAX_CLONES

HistoryBoundedFifo ==
    [][LET old == player.history
           new == player'.history
       IN /\ Len(new) <= MAX_HISTORY
          /\ \E j \in 0 .. 2 :
                LET kept == Len(new) - j
                IN /\ Len(new) = Min(Len(old) + j, MAX_HISTORY)
                   /\ kept >= 0
                   /\ SubSeq(new, 1, kept) = SubSeq(old, Len(old) - kept + 1, Len(old))
          /\ Pos(player') # Pos(player) =>
                /\ Len(new) > 0
                /\ \/ Pos(new[Len(new)]) = Pos(player)
                   \/ /\ Len(new) > 1
                      /\ Pos(new[Len(new) - 1]) = Pos(player)
                      /\ Pos(new[Len(new)]) = Pos(player')]_vars

\* C9 witness: the history is full and the start position has left it.
StartEvicted ==
    /\ Len(player.history) = MAX_HISTORY
    /\ \A i \in 1 .. MAX_HISTORY : Pos(player.history[i]) # PlayerStart

\* C10: a door that was opened with a key is open.
KeyOpenedDoorStaysOpen == \A d \in key_opened : world.doors[d].is_open

\* C11: a door whose required-switch set is empty is open only if it was
\* opened with a key: the subset rule never opens it, at load or later.
EmptyDoorOpensOnlyByKey ==
    \A d \in DOMAIN world.doors :
        (world.doors[d].required_switches = {} /\ world.doors[d].is_open)
            => d \in key_opened

\* C12: a step in any direction returns an outcome, and a step toward a
\* wall, a position outside the grid, a closed switch door, or the closed
\* key door while holding no key returns False and leaves the mover's
\* position, keys and energy, every tile, every door and the activated
\* switches as they were.
BlockedStepChangesNothing ==
    \A d \in Directions :
        LET w == Quiet(world)
            m == move(player, w, d[1], d[2])
            tx == player.x + d[1]
            ty == player.y + d[2]
            closed == /\ <<tx, ty>> \in DOMAIN w.doors
                      /\ ~w.doors[<<tx, ty>>].is_open
                      /\ w.map[<<tx, ty>>] = TILE_DOOR_CLOSED
            illegal == \/ ~InBounds(w, tx, ty)
                       \/ w.map[<<tx, ty>>] = TILE_WALL
                       \/ closed /\ (<<tx, ty>> # KeyDoorPos \/ player.keys = 0)
        IN /\ m.ret \in BOOLEAN
           /\ illegal =>
                /\ ~m.ret
                /\ Pos(m.player) = Pos(player)
                /\ m.player.keys = player.keys
                /\ m.player.energy = player.energy
                /\ m.world = w

\* C12 witness: the mover, holding no key, has just stepped toward the
\* closed key door from the tile to its left and is still there.
BlockedAtKeyDoor ==
    /\ Pos(player) = <<KeyDoorPos[1] - 1, KeyDoorPos[2]>>
    /\ player.keys = 0
    /\ ~world.doors[KeyDoorPos].is_open
    /\ player.facing = "right"
    /\ player.history # <<>>
    /\ Pos(player.history[Len(player.history)]) = Pos(player)

\* C13: a guard does not see a mover that is on neither its row nor its
\* column, at any distance; a guard that has looked at such a mover has not
\* seen it.
NoSightOffRowAndColumn ==
    \A i \in DOMAIN guards :
        (guards[i].x # player.x /\ guards[i].y # player.y) =>
            /\ ~_can_see_player(guards[i], player, world)
            /\ guards[i].looked => ~guards[i].sees

\* C13 witness: a guard has looked at a mover on a diagonally adjacent tile.
LookedDiagonally ==
    \E i \in DOMAIN guards :
        /\ guards[i].looked
        /\ guards[i].x - player.x \in {-1, 1}
        /\ guards[i].y - player.y \in {-1, 1}

RECURSIVE ReplayedIn(_, _, _)
ReplayedIn(c, w, j) ==
    IF j = 0 THEN [clone |-> c, world |-> w]
    ELSE LET r == CloneUpdate(c, w) IN ReplayedIn(r.clone, r.world, j - 1)

\* The switch calls of one clone update from tile `cur` to tile `nxt`:
\* deactivate the switch left, activate the switch reached and, if `last`,
\* deactivate that one again.
UpdateCalls(w, cur, nxt, last) ==
    LET on(q) == get_tile_at(w, q[1], q[2]) = TILE_SWITCH
    IN (IF on(cur) THEN << <<"deactivate", cur>> >> ELSE <<>>)
       \o (IF on(nxt) THEN << <<"activate", nxt>> >> ELSE <<>>)
       \o (IF last /\ on(nxt) THEN << <<"deactivate", nxt>> >> ELSE <<>>)

ExitTouchedNotOccupied ==
    /\ get_tile_at(world, player.x, player.y) # TILE_EXIT
    /\ state = STATE_LEVEL_COMPLETE => world.level_completed
    /\ \A d \in Directions :
          LET m == move(player, Quiet(world), d[1], d[2])
          IN get_tile_at(world, player.x + d[1], player.y + d[2]) = TILE_EXIT =>
                /\ m.world.level_completed
                /\ Pos(m.player) = Pos(player)
                /\ ~m.ret

\* C16 witness: the mover has stepped toward the exit below the start tile:
\* the level is completed and the mover is still on the start tile.
ExitTouched ==
    /\ world.level_completed
    /\ state = STATE_LEVEL_COMPLETE
    /\ Pos(player) = <<ExitPos[1], ExitPos[2] - 1>>
    /\ player.facing = "down"

\* C17: a step that moves the live mover (ordinary move, item pickup,
\* teleport or key-door entry) deactivates the switch of the tile it leaves
\* and activates the switch of the tile it moves onto, within the step.
SwitchFollowsMover ==
    \A d \in Directions :
        LET m == move(player, Quiet(world), d[1], d[2])
            cur == Pos(player)
            new == Pos(m.player)
            calls == {m.world.calls[i] : i \in 1 .. Len(m.world.calls)}
        IN m.ret =>
             /\ new # cur
             /\ get_tile_at(world, cur[1], cur[2]) = TILE_SWITCH =>
                   /\ cur \notin m.world.activated_switches
                   /\ <<"deactivate", cur>> \in calls
             /\ get_tile_at(world, new[1], new[2]) = TILE_SWITCH =>
                   /\ new \in m.world.activated_switches
                   /\ <<"activate", new>> \in calls

\* C17 witness: the mover has picked up the key by stepping off the switch
\* above it, and the switch is inactive.
KeyTakenFromSwitch ==
    /\ Pos(player) = StepsKeyPos
    /\ player.keys = 1
    /\ player.history # <<>>
    /\ Pos(player.history[Len(player.history)]) = S1
    /\ S1 \notin world.activated_switches

(***************************************************************************)
(* C18.  Stepping onto a portal tile succeeds and places the mover on the  *)
(* position of the paired portal; the pairing is symmetric, so the step    *)
(* onto the paired portal lands on the position of the first one; a switch *)
(* under the mover is deactivated by the step, and that is the only switch *)
(* call the step makes.                                                    *)
(***************************************************************************)
PortalStepLandsOnPair ==
    /\ \A a \in DOMAIN world.portals :
          /\ world.portals[a] \in DOMAIN world.portals
          /\ world.portals[a] # a
          /\ world.portals[world.portals[a]] = a
    /\ \A d \in Directions :
          LET cur == Pos(player)
              target == <<player.x + d[1], player.y + d[2]>>
              m == move(player, Quiet(world), d[1], d[2])
          IN target \in DOMAIN world.portals =>
               /\ get_tile_at(world, target[1], target[2])
                     \in {TILE_PORTAL_A, TILE_PORTAL_B}
               /\ m.ret
               /\ Pos(m.player) = world.portals[target]
               /\ \A e \in Directions :
                     LET pair == world.portals[target]
                         from == <<pair[1] - e[1], pair[2] - e[2]>>
                         r == move([player EXCEPT !.x = from[1], !.y = from[2]],
                                   Quiet(world), e[1], e[2])
                     IN is_walkable(world, from[1], from[2]) =>
                          r.ret /\ Pos(r.player) = target
               /\ m.world.calls =
                     IF get_tile_at(world, cur[1], cur[2]) = TILE_SWITCH
                     THEN << <<"deactivate", cur>> >>
                     ELSE <<>>
               /\ get_tile_at(world, cur[1], cur[2]) = TILE_SWITCH =>
                     cur \notin m.world.activated_switches

TeleportedFromSwitch ==
    /\ Pos(player) = PortalB
    /\ Len(player.history) >= 2
    /\ Pos(player.history[Len(player.history)]) = PortalB
    /\ Pos(player.history[Len(player.history) - 1]) = S3
    /\ S3 \notin world.activated_switches

(***************************************************************************)
(* C19.  A step onto a key tile adds one key and a step onto a potion tile *)
(* sets the energy to min(energy_max, energy + 1); either step deletes the *)
(* item entry and turns the tile into floor, so that the same step taken   *)
(* again collects nothing.                                                 *)
(***************************************************************************)
ItemCollectedOnce ==
    \A d \in Directions :
        LET cur == Pos(player)
            target == <<player.x + d[1], player.y + d[2]>>
            tile == get_tile_at(world, target[1], target[2])
            m == move(player, Quiet(world), d[1], d[2])
            again == move([m.player EXCEPT !.x = cur[1], !.y = cur[2]],
                          m.world, d[1], d[2])
        IN tile \in {TILE_ITEM_KEY, TILE_ITEM_POTION} =>
             /\ m.ret
             /\ Pos(m.player) = target
             /\ tile = TILE_ITEM_KEY =>
                   /\ m.player.keys = player.keys + 1
                   /\ m.player.energy = player.energy
             /\ tile = TILE_ITEM_POTION =>
                   /\ m.player.energy = Min(player.energy_max, player.energy + 1)
                   /\ m.player.energy <= player.energy_max
                   /\ m.player.keys = player.keys
             /\ target \notin DOMAIN m.world.items
             /\ get_tile_at(m.world, target[1], target[2]) = TILE_FLOOR
             /\ again.ret
             /\ again.player.keys = m.player.keys
             /\ again.player.energy = m.player.energy

PotionRestoredEnergy ==
    /\ Pos(player) = PotionPos
    /\ PotionPos \notin DOMAIN world.items
    /\ get_tile_at(world, PotionPos[1], PotionPos[2]) = TILE_FLOOR
    /\ Len(clones) + Len(retired) > 0
    /\ player.energy = player.energy_max

(***************************************************************************)
(* C20.  A step spends a key only on a closed key-locked door while the    *)
(* mover holds a key: it then takes exactly one key, leaves the door open  *)
(* and the mover on the door tile.  A step toward a closed switch-locked   *)
(* door (one whose level entry requires switches) returns False, spends no *)
(* key and leaves the door closed.  The key count is never negative.       *)
(***************************************************************************)
KeySpentOnlyOnKeyLockedDoor ==
    /\ player.keys >= 0
    /\ \A d \in Directions :
          LET target == <<player.x + d[1], player.y + d[2]>>
              tile == get_tile_at(world, target[1], target[2])
              m == move(player, Quiet(world), d[1], d[2])
              closed == tile = TILE_DOOR_CLOSED /\ target \in DOMAIN world.doors
              switch_locked == closed /\ world.doors[target].required_switches # {}
          IN /\ m.player.keys >= 0
             /\ m.player.keys < player.keys =>
                   /\ closed
                   /\ ~switch_locked
                   /\ player.keys > 0
                   /\ m.player.keys = player.keys - 1
                   /\ m.ret
                   /\ Pos(m.player) = target
                   /\ m.world.doors[target].is_open
                   /\ get_tile_at(m.world, target[1], target[2]) = TILE_DOOR_OPEN
             /\ switch_locked =>
                   /\ ~m.ret
                   /\ m.player.keys = player.keys
                   /\ ~m.world.doors[target].is_open
                   /\ get_tile_at(m.world, target[1], target[2]) = TILE_DOOR_CLOSED

(***************************************************************************)
(* C21.  Every attempted step, moved or blocked, first records the         *)
(* pre-step position unless it already is the newest history entry; a      *)
(* teleport then also records the arrival position.  After a step that     *)
(* did not move the mover the newest history entry is therefore the        *)
(* mover's position.                                                       *)
(***************************************************************************)
LastPos(h) == Pos(h[Len(h)])

StepRecordedBeforeOutcome ==
    \A d \in Directions :
        LET cur == Pos(player)
            h == player.history
            m == move(player, Quiet(world), d[1], d[2])
            mh == m.player.history
            entry == [x |-> player.x, y |-> player.y, direction |-> player.facing]
            fresh == h = <<>> \/ LastPos(h) # cur
            grown == Append(h, entry)
            before == IF ~fresh THEN h
                      ELSE IF Len(grown) > MAX_HISTORY THEN Tail(grown)
                      ELSE grown
            teleported == m.ret /\ Pos(m.player) \in DOMAIN world.portals
        IN /\ mh # <<>>
           /\ ~teleported =>
                 /\ mh = before
                 /\ LastPos(mh) = cur
           /\ teleported =>
                 /\ LastPos(mh) = Pos(m.player)
                 /\ Len(mh) >= 2
                 /\ Pos(mh[Len(mh) - 1]) = cur
                 /\ SubSeq(mh, 1, Len(mh) - 1)
                       = SubSeq(before, Len(before) - Len(mh) + 2, Len(before))
           /\ ~m.ret =>
                 /\ Pos(m.player) = cur
                 /\ LastPos(mh) = Pos(m.player)

BlockedStepRecorded ==
    /\ player.history # <<>>
    /\ LastPos(player.history) = Pos(player)
    /\ Pos(player) \notin DOMAIN world.portals
    /\ ~world.level_completed
    /\ Len(player.history) = MAX_HISTORY

(***************************************************************************)
(* C22.  A clone update, whatever position its path names next (an item,   *)
(* the exit and a closed door included), changes in the world only the     *)
(* activated switches and, by the subset rule, the doors that require      *)
(* switches: items, portals, the level-completed flag, every tile that is  *)
(* not a door and every door with an empty required set stay as they were; *)
(* a door changes only in an update that makes a switch call.              *)
(* In the clone it changes only position, facing, cursor and active flag,  *)
(* and the clone loop of a tick returns no clone it was not given.         *)
(***************************************************************************)
Redirected(c, q) ==
    IF c.current_step < Len(c.history)
    THEN [c EXCEPT !.history[c.current_step + 1].x = q[1],
                   !.history[c.current_step + 1].y = q[2]]
    ELSE c

CloneUpdateTouchesOnlySwitches ==
    /\ \A i \in 1 .. Len(clones) : \A q \in Positions :
          LET c == Redirected(clones[i], q)
              r == CloneUpdate(c, Quiet(world))
          IN /\ r.world.items = world.items
             /\ r.world.portals = world.portals
             /\ r.world.level_completed = world.level_completed
             /\ DOMAIN r.world.doors = DOMAIN world.doors
             /\ \A pos \in Positions \ DOMAIN world.doors :
                   get_tile_at(r.world, pos[1], pos[2]) = get_tile_at(world, pos[1], pos[2])
             /\ \A d \in DOMAIN world.doors :
                   /\ r.world.doors[d].required_switches = world.doors[d].required_switches
                   /\ r.world.doors[d] # world.doors[d] =>
                         /\ world.doors[d].required_switches # {}
                         /\ r.world.calls # <<>>
                         /\ r.world.doors[d].is_open
                               <=> world.doors[d].required_switches
                                      \subseteq r.world.activated_switches
             /\ r.clone = [c EXCEPT !.x = r.clone.x, !.y = r.clone.y,
                                    !.facing = r.clone.facing,
                                    !.current_step = r.clone.current_step,
                                    !.active = r.clone.active]
    /\ LET u == UpdateClones(clones, world)
       IN /\ Len(u.active_clones) + Len(u.removed) = Len(clones)
          /\ \A j \in 1 .. Len(u.active_clones) :
                \E i \in 1 .. Len(clones) :
                   u.active_clones[j].history = clones[i].history

CloneWalkedOverItemPlace ==
    \E i \in 1 .. Len(clones) :
        /\ clones[i].active
        /\ clones[i].updates >= 1
        /\ Pos(clones[i]) = PotionPos
        /\ PotionPos \notin DOMAIN world.items

(***************************************************************************)
(* C23.  The path of a clone is fixed when the clone is created: in every  *)
(* step, whatever the live mover's history gains or loses in it, each      *)
(* clone still in the list has the path it had before the step (a tick     *)
(* advances its cursor over that path by one), and a clone added by the    *)
(* step has the prefix of the mover's history it was created from.         *)
(***************************************************************************)
RECURSIVE Survive(_, _)
Survive(after, before) ==
    IF after = <<>> THEN TRUE
    ELSE IF before = <<>> THEN FALSE
    ELSE \/ /\ Head(after).history = Head(before).history
            /\ Head(after).current_step = Head(before).current_step + 1
            /\ Survive(Tail(after), Tail(before))
         \/ Survive(after, Tail(before))

OnlyActiveClonesKept ==
    /\ \A i \in 1 .. Len(clones) :
          /\ clones[i].active
          /\ clones[i].current_step < Len(clones[i].history)
          /\ clones[i].updates = clones[i].current_step
    /\ LET u == UpdateClones(clones, world)
           stay == SelectSeq(clones, LAMBDA c : c.current_step + 1 < Len(c.history))
       IN /\ Len(u.active_clones) = Len(stay)
          /\ \A j \in 1 .. Len(stay) :
                /\ u.active_clones[j].active
                /\ u.active_clones[j].history = stay[j].history
                /\ u.active_clones[j].current_step = stay[j].current_step + 1
                /\ u.active_clones[j].updates = stay[j].updates + 1
          /\ Len(u.removed) = Len(clones) - Len(stay)
          /\ \A j \in 1 .. Len(u.removed) : u.removed[j].updates = u.removed[j].n
    /\ \A j \in 1 .. Len(retired) : retired[j].updates = retired[j].n

OneCloneDroppedOneKept ==
    /\ Len(retired) >= 1
    /\ \E i \in 1 .. Len(clones) : clones[i].updates >= 1

(***************************************************************************)
(* C25.  A level whose door requires a position that is not in the switch  *)
(* list is not loaded: no session is playing on it, no switch is           *)
(* registered that the list does not name, and no tile of the map is       *)
(* rewritten into a switch.                                                *)
(***************************************************************************)
LoadRejectsMissingSwitch ==
    LET missing == RequiredSwitches(PatchedData) \ PatchedData.switches
    IN missing # {} =>
         /\ state # STATE_PLAYING
         /\ DOMAIN world.switches \subseteq PatchedData.switches
         /\ \A q \in missing : world.map[q] = PatchedData.map[q]

(***************************************************************************)
(* C26.  A frame applies the mover's step first, then the clones' updates  *)
(* from the oldest to the newest, then the guards' updates, and evaluates  *)
(* win and capture last.  So a switch touched in the frame ends activated  *)
(* exactly when the last call about it, in that order, is an activation; a *)
(* guard's sight test is made on the mover and the world as the step and   *)
(* the clones have left them; and the session's state after the frame is   *)
(* decided by where the guards and the mover then stand.                   *)
(***************************************************************************)
\* A guard as it stands some frames into the level: at q, past its first
\* wait and heading for the switch, or chasing toward t.
PostedGuard(q, st, t) ==
    [NewGuard(q[1], q[2]) EXCEPT
        !.patrol_route = <<OrderPost, OrderSwitch, OrderPost>>,
        !.patrol_index = 1,
        !.state = st,
        !.target_position = IF st = GUARD_CHASING THEN t ELSE <<>>]

OrderCells == {OrderStart, OrderSwitch, OrderDoor, OrderPost}

FrameCalls(d) ==
    Frame(player, world, <<>>, <<>>, state, d[1], d[2], 1).step.world.calls
       \o Flatten([i \in 1 .. Len(clones) |->
                      CloneUpdate(clones[i], Quiet(world)).world.calls])

GuardTransitions ==
    {<<GUARD_PATROLLING, GUARD_ALERTED>>, <<GUARD_ALERTED, GUARD_CHASING>>,
     <<GUARD_ALERTED, GUARD_PATROLLING>>, <<GUARD_CHASING, GUARD_PATROLLING>>}

GuardTakesOnlyItsTransitions ==
    \A i \in DOMAIN guards :
        /\ guards[i].state \in {GUARD_PATROLLING, GUARD_ALERTED, GUARD_CHASING}
        /\ \A d \in Directions \cup {<<0, 0>>} : \A dt \in Dts :
              LET g == guards[i]
                  m == Frame(player, world, clones, <<>>, state, d[1], d[2], dt)
                  r == GuardUpdate(g, m.player, m.world, dt).guard
                  a == PlayerUpdate(<<r>>, m.player)[1]
              IN /\ r.state # g.state => <<g.state, r.state>> \in GuardTransitions
                 /\ a.state # r.state =>
                       /\ <<r.state, a.state>> \in GuardTransitions
                       /\ r.state = GUARD_PATROLLING
                 /\ r.state = GUARD_CHASING => a = r

GuardBackFromChase ==
    \E i \in DOMAIN guards :
        /\ guards[i].state = GUARD_PATROLLING
        /\ guards[i].was = GUARD_CHASING

(***************************************************************************)
(* C28.  While a Patrolling guard's wait timer is positive, its update     *)
(* takes the frame's time off the timer and does nothing else: position,   *)
(* patrol index, state, target and alert timer stay as they were and no    *)
(* visibility test is made, wherever the mover stands; it catches no one.  *)
(***************************************************************************)
WaitingGuardOnlyCountsDown ==
    \A i \in DOMAIN guards : \A d \in Directions \cup {<<0, 0>>} : \A dt \in Dts :
        LET g == guards[i]
            m == Frame(player, world, clones, <<>>, state, d[1], d[2], dt)
            r == GuardUpdate(g, m.player, m.world, dt)
        IN (g.state = GUARD_PATROLLING /\ g.patrol_timer > 0) =>
             /\ r.guard = [g EXCEPT !.patrol_timer = g.patrol_timer - dt,
                                    !.looked = FALSE, !.sees = FALSE,
                                    !.was = GUARD_PATROLLING]
             /\ ~r.caught

WaitedInPlainSight ==
    \E i \in DOMAIN guards :
        /\ guards[i].state = GUARD_PATROLLING
        /\ guards[i].was = GUARD_PATROLLING
        /\ guards[i].patrol_timer > 0
        /\ guards[i].patrol_timer < patrol_wait
        /\ ~guards[i].looked
        /\ _can_see_player(guards[i], player, world)

(***************************************************************************)
(* C29.  An Alerted guard's update never moves it.  While the alert timer  *)
(* is still positive after the frame's time is taken off, the guard stays  *)
(* Alerted and makes no visibility test.  On the update where the timer    *)
(* reaches zero or below it tests visibility once: the mover visible, it   *)
(* becomes Chasing with the mover's current position as target; otherwise  *)
(* it becomes Patrolling.                                                  *)
(***************************************************************************)
AlertedGuardWaitsThenRetests ==
    \A i \in DOMAIN guards : \A d \in Directions \cup {<<0, 0>>} : \A dt \in Dts :
        LET g == guards[i]
            m == Frame(player, world, clones, <<>>, state, d[1], d[2], dt)
            r == GuardUpdate(g, m.player, m.world, dt).guard
        IN g.state = GUARD_ALERTED =>
             /\ g.alert_timer > 0
             /\ r.x = g.x /\ r.y = g.y
             /\ r.alert_timer = g.alert_timer - dt
             /\ r.patrol_index = g.patrol_index
             /\ IF g.alert_timer - dt > 0
                THEN /\ r.state = GUARD_ALERTED
                     /\ ~r.looked
                     /\ r.target_position = g.target_position
                ELSE /\ r.looked
                     /\ IF _can_see_player(g, m.player, m.world)
                        THEN /\ r.state = GUARD_CHASING
                             /\ r.target_position = <<m.player.x, m.player.y>>
                        ELSE /\ r.state = GUARD_PATROLLING
                             /\ r.target_position = g.target_position

AlertEndedInChase ==
    \E i \in DOMAIN guards :
        /\ guards[i].was = GUARD_ALERTED
        /\ guards[i].state = GUARD_CHASING
        /\ guards[i].looked /\ guards[i].sees
        /\ guards[i].target_position = <<player.x, player.y>>

(***************************************************************************)
(* C30.  A Chasing guard has a target, and its update moves it at most one *)
(* tile on each axis, never away from the target.  The mover visible from  *)
(* where the guard then stands, the target becomes the mover's position    *)
(* and the guard stays Chasing.  The guard returns to Patrolling exactly   *)
(* when the mover is not visible and the guard stands on the target it had *)
(* at the start of the update; otherwise it keeps chasing that target.     *)
(***************************************************************************)
ChasingGuardStepsAndRefreshes ==
    \A i \in DOMAIN guards : \A d \in Directions \cup {<<0, 0>>} : \A dt \in Dts :
        LET g == guards[i]
            m == Frame(player, world, clones, <<>>, state, d[1], d[2], dt)
            r == GuardUpdate(g, m.player, m.world, dt).guard
            t == g.target_position
            seen == _can_see_player(r, m.player, m.world)
        IN g.state = GUARD_CHASING =>
             /\ t # <<>>
             /\ Abs(r.x - g.x) <= 1 /\ Abs(r.y - g.y) <= 1
             /\ Abs(t[1] - r.x) <= Abs(t[1] - g.x)
             /\ Abs(t[2] - r.y) <= Abs(t[2] - g.y)
             /\ is_walkable(m.world, r.x, r.y)
             /\ r.looked /\ (r.sees <=> seen)
             /\ seen => /\ r.state = GUARD_CHASING
                        /\ r.target_position = <<m.player.x, m.player.y>>
             /\ ~seen => r.target_position = t
             /\ r.state = GUARD_PATROLLING <=> (~seen /\ <<r.x, r.y>> = t)
             /\ r.state \in {GUARD_CHASING, GUARD_PATROLLING}

ChaseEndedOnStaleTarget ==
    \E i \in DOMAIN guards :
        /\ guards[i].was = GUARD_CHASING
        /\ guards[i].state = GUARD_PATROLLING
        /\ guards[i].looked /\ ~guards[i].sees
        /\ guards[i].target_position = <<guards[i].x, guards[i].y>>
        /\ guards[i].target_position # <<player.x, player.y>>

(***************************************************************************)
(* C31.  A guard's update sets the capture flag exactly when the guard was *)
(* Chasing when the update began and stands on the mover's tile after its  *)
(* move; the update of a Patrolling or Alerted guard never sets it, on the *)
(* mover's tile or not.  The session is over only with a guard that was    *)
(* Chasing standing on the mover's tile.                                   *)
(***************************************************************************)
CaughtOnlyByChasingGuard ==
    /\ \A i \in DOMAIN guards : \A d \in Directions \cup {<<0, 0>>} : \A dt \in Dts :
          LET g == guards[i]
              m == Frame(player, world, clones, <<>>, state, d[1], d[2], dt)
              r == GuardUpdate(g, m.player, m.world, dt)
          IN r.caught <=> /\ g.state = GUARD_CHASING
                          /\ r.guard.x = m.player.x
                          /\ r.guard.y = m.player.y
    /\ state = STATE_GAME_OVER =>
          \E i \in DOMAIN guards :
              /\ guards[i].was = GUARD_CHASING
              /\ guards[i].x = player.x /\ guards[i].y = player.y

MoverCaught ==
    /\ state = STATE_GAME_OVER
    /\ \E i \in DOMAIN guards :
          /\ guards[i].was = GUARD_CHASING
          /\ guards[i].x = player.x /\ guards[i].y = player.y

(***************************************************************************)
(* C32.  A guard heading for a target ends on the first walkable one of    *)
(* three destinations: the step along the axis with the larger absolute    *)
(* delta, the step along the other axis, the diagonal step; with none of   *)
(* them walkable it stays where it is.  Nothing but its position changes,  *)
(* it only moves onto a tile that is walkable and at most one tile along   *)
(* each axis.                                                              *)
(***************************************************************************)
TowardSteps(g, t) ==
    LET dx == IF g.x < t[1] THEN 1 ELSE IF g.x > t[1] THEN -1 ELSE 0
        dy == IF g.y < t[2] THEN 1 ELSE IF g.y > t[2] THEN -1 ELSE 0
        along_x == <<g.x + dx, g.y>>
        along_y == <<g.x, g.y + dy>>
    IN IF Abs(t[1] - g.x) > Abs(t[2] - g.y)
       THEN <<along_x, along_y, <<g.x + dx, g.y + dy>> >>
       ELSE <<along_y, along_x, <<g.x + dx, g.y + dy>> >>

GuardTakesFirstWalkableStep ==
    \A i \in DOMAIN guards : \A t \in TowardCells :
        LET g == guards[i]
            steps == TowardSteps(g, t)
            open == {k \in 1 .. 3 : is_walkable(world, steps[k][1], steps[k][2])}
            r == _move_toward(g, t[1], t[2], world)
        IN /\ <<r.x, r.y>> = IF open = {} THEN <<g.x, g.y>>
                             ELSE steps[CHOOSE k \in open : \A l \in open : k <= l]
           /\ r = [g EXCEPT !.x = r.x, !.y = r.y]
           /\ <<r.x, r.y>> # <<g.x, g.y>> => is_walkable(world, r.x, r.y)
           /\ Abs(r.x - g.x) <= 1 /\ Abs(r.y - g.y) <= 1

GuardCouldOnlyStepDiagonally ==
    \E i \in DOMAIN guards : \E t \in TowardCells :
        LET g == guards[i]
            steps == TowardSteps(g, t)
            r == _move_toward(g, t[1], t[2], world)
        IN /\ <<g.x, g.y>> # g.patrol_route[1]
           /\ ~is_walkable(world, steps[1][1], steps[1][2])
           /\ ~is_walkable(world, steps[2][1], steps[2][2])
           /\ <<r.x, r.y>> = steps[3]
           /\ r.x # g.x /\ r.y # g.y

(***************************************************************************)
(* C33.  A clone's step passes the mover's passability check: whenever a   *)
(* clone's update moves it to another tile, that tile is walkable in the   *)
(* world the update starts from; in particular a clone does not step into  *)
(* a door that is closed when it gets there.                               *)
(***************************************************************************)
CloneEntersOnlyWalkableTiles ==
    \A i \in DOMAIN clones :
        LET c == clones[i]
            r == CloneUpdate(c, Quiet(world))
        IN <<r.clone.x, r.clone.y>> # <<c.x, c.y>> =>
              is_walkable(world, r.clone.x, r.clone.y)

(***************************************************************************)
(* C34.  The live mover's energy is never below zero and never above       *)
(* energy_max, whatever clones were created, whatever creations failed and *)
(* whatever potions were picked up; no time travel requested now, with     *)
(* any step count, takes it below zero.                                    *)
(***************************************************************************)
EnergyWithinBounds ==
    /\ 0 <= player.energy
    /\ player.energy <= player.energy_max
    /\ player.energy_max = PLAYER_START_ENERGY
    /\ \A steps \in 0 .. MaxStepsInput :
          time_travel(player, clones, steps).player.energy >= 0

EnergySpentAfterPotion ==
    /\ player.energy = 0
    /\ get_tile_at(world, PotionPos[1], PotionPos[2]) # TILE_ITEM_POTION
    /\ Len(player.history) > 1

(***************************************************************************)
(* C35.  After level setup the grid tile at every registered door position *)
(* is the open-door tile if the door's is_open flag is set and the         *)
(* closed-door tile if it is not, whatever switches were activated and     *)
(* deactivated and whatever doors were opened with a key.                  *)
(***************************************************************************)
DoorTileAgreesWithFlag ==
    \A d \in DOMAIN world.doors :
        get_tile_at(world, d[1], d[2]) =
            IF world.doors[d].is_open THEN TILE_DOOR_OPEN ELSE TILE_DOOR_CLOSED

KeyOpenedWhileSwitchHeld ==
    /\ KeyDoorPos \in key_opened
    /\ world.doors[KeyDoorPos].is_open
    /\ get_tile_at(world, KeyDoorPos[1], KeyDoorPos[2]) = TILE_DOOR_OPEN
    /\ S3 \notin world.activated_switches
    /\ world.activated_switches # {}
    /\ ~world.doors[DoorC].is_open

MoverNeverInWallOrClosedDoor ==
    get_tile_at(world, player.x, player.y) \notin {TILE_WALL, TILE_DOOR_CLOSED}

(***************************************************************************)
(* C38.  An Alerted guard's alert runs out: over every tick that leaves a  *)
(* guard Alerted its alert timer has gone down, so that the guard leaves   *)
(* Alerted within alert_duration of tick time, also with the live mover    *)
(* standing on the guard's tile throughout.                                *)
(***************************************************************************)
AlertRunsOut ==
    [][\A i \in DOMAIN guards :
          (guards[i].state = GUARD_ALERTED /\ guards'[i].state = GUARD_ALERTED) =>
              guards'[i].alert_timer < guards[i].alert_timer]_vars

(***************************************************************************)
(* C39.  A Chasing guard that does not see the live mover does not stay so *)
(* for ever, also when a wall or a closed door bars every step toward its  *)
(* target: there is no state with such a guard that a frame without a step *)
(* of the mover leaves exactly as it is, since from such a state the       *)
(* frames that follow, the mover standing still, keep the guard Chasing    *)
(* its stale target without end.                                           *)
(***************************************************************************)
StaleChaseEnds ==
    \A i \in DOMAIN guards : \A dt \in Dts :
        LET f == Frame(player, world, clones, guards, state, 0, 0, dt)
        IN (state = STATE_PLAYING /\ guards[i].state = GUARD_CHASING /\ ~guards[i].sees) =>
              ~ /\ f.guards = guards
                /\ f.player = player
                /\ f.active_clones = clones
                /\ Quiet(f.world) = world
                /\ f.state = state

(***************************************************************************)
(* C40.  A tick in which the live mover touches the exit ends with the     *)
(* session in the level-complete state, also when a Chasing guard reaches  *)
(* the mover's tile in the same tick: the session is never in game-over    *)
(* while the world's level_completed flag is set.                          *)
(***************************************************************************)
ExitTouchedWinsTheTick ==
    world.level_completed => state = STATE_LEVEL_COMPLETE

====
